---- MODULE Spec2Model ----
(***************************************************************************)
(* SharedPtr / WeakPtr / EnableSharedFromThis of src/shared-from-this.     *)
(*                                                                         *)
(* The managed type T is the client's: here                                *)
(*   struct T [: EnableSharedFromThis<T>] { SharedPtr<T> next;             *)
(*                                          WeakPtr<T>   wm; };            *)
(* selfAware says whether T derives from EnableSharedFromThis<T>.          *)
(* An entity e is the object at address e together with the control block  *)
(* that manages it (block e), if any.  Every operation of the library is   *)
(* one atomic step, the destructors it runs included.                      *)
(* A size_t counter c is kept as the integer congruent to c modulo 2^64    *)
(* of least absolute value, so --0 is -1 and the code's tests against 0    *)
(* are the same.                                                           *)
(***************************************************************************)
EXTENDS Integers, FiniteSets, Sequences, TLC

MaxObj == 2
MaxShared == 2
MaxWeak == 1
FreeCap == 2

VARIABLES client, selfAware, blk, obj, sh, wk, last

vars == <<client, selfAware, blk, obj, sh, wk, last>>

Ent == 1..MaxObj

\* <<"s", 0>> is the place of a temporary SharedPtr inside a call
TmpS == <<"s", 0>>
ExtS == {<<"s", i>> : i \in 1..MaxShared}
ExtW == {<<"w", i>> : i \in 1..MaxWeak}
SLoc == ExtS \cup {TmpS} \cup {<<"next", e>> : e \in Ent}
WLoc == ExtW \cup {<<"wm", e>> : e \in Ent} \cup {<<"this", e>> : e \in Ent}

NullS == [cb |-> 0, ptr |-> 0]
NullW == [cb |-> 0, ptr |-> 0, is_esft_ptr |-> FALSE]

ControlBlockBase ==
    [st |-> "none", inl |-> FALSE, strong_ref_cnt |-> 0, weak_ref_cnt |-> 0,
     is_destroyed |-> FALSE, deletem_ptr |-> 0, frees |-> 0]

NoObject == [st |-> "none", dtors |-> 0]

\* the program state as one record, so that the handlers compose
\* res is how the running call ends: "ok", "null" (a null handle returned),
\* "throw" (BadWeakPtr) or "crash" (the process is killed on a wild access).
\* ub says that the call has read or written an object outside its lifetime
\* (freed memory, a destroyed handle, a null or dangling pointer).
Cur == [blk |-> blk, obj |-> obj, sh |-> sh, wk |-> wk, res |-> "ok",
        ub |-> FALSE, esft |-> selfAware]

Undefined(st) == [st EXCEPT !.ub = TRUE]
Crash(st) == [st EXCEPT !.res = "crash", !.ub = TRUE]
Crashed(st) == st.res = "crash"

IsLive(st, b) == b # 0 /\ st.blk[b].st = "live"
IsFreed(st, b) == b # 0 /\ st.blk[b].st = "freed"

\* a handle exists while the object it is a member of does
LiveLoc(st, loc) ==
    loc[1] \in {"s", "w"} \/ st.obj[loc[2]].st \in {"alive", "dying"}

\* a store into a handle; a store into a destroyed object's member is lost
SetS(st, loc, v) ==
    IF LiveLoc(st, loc) THEN [st EXCEPT !.sh[loc] = v] ELSE Undefined(st)
SetW(st, loc, v) ==
    IF LiveLoc(st, loc)
    THEN [st EXCEPT !.wk[loc] = [cb |-> v.cb, ptr |-> v.ptr,
                                 is_esft_ptr |-> st.wk[loc].is_esft_ptr]]
    ELSE Undefined(st)

----------------------------------------------------------------------------
\* ControlBlockBase.  A write to a freed block is undefined and not recorded.

IncStrongRef(st, b) ==
    IF IsLive(st, b) THEN [st EXCEPT !.blk[b].strong_ref_cnt = @ + 1] ELSE Undefined(st)

DecStrongRef(st, b) ==
    IF IsLive(st, b) THEN [st EXCEPT !.blk[b].strong_ref_cnt = @ - 1] ELSE Undefined(st)

IncWeakRef(st, b) ==
    IF IsLive(st, b) THEN [st EXCEPT !.blk[b].weak_ref_cnt = @ + 1] ELSE Undefined(st)

DecWeakRef(st, b) ==
    IF IsLive(st, b) THEN [st EXCEPT !.blk[b].weak_ref_cnt = @ - 1] ELSE Undefined(st)

GetAllCounter(st, b) == st.blk[b].strong_ref_cnt + st.blk[b].weak_ref_cnt

CanDeleteControlBlock(st, b) == GetAllCounter(st, b) = 0

\* delete control_block_: neither ~DefaultBlock nor ~InlineBlock runs ~T.
\* An object still alive in an InlineBlock's storage loses its storage.
DeleteBlock(st, b) ==
    LET n == IF st.blk[b].frees < FreeCap THEN st.blk[b].frees + 1 ELSE FreeCap
        s1 == [st EXCEPT !.blk[b].st = "freed", !.blk[b].frees = n]
    IN  IF st.blk[b].inl /\ st.obj[b].st = "alive"
        THEN [s1 EXCEPT !.obj[b].st = "dead"]
        ELSE s1

----------------------------------------------------------------------------
\* WeakPtr

IncreaseWeakCounter(st, loc) ==
    IF st.wk[loc].cb # 0 THEN IncWeakRef(st, st.wk[loc].cb) ELSE st

\* a release that deletes the block as soon as no WeakPtr is left
DecreaseWeakCounterWeakOnly(st, loc) ==
    LET b == st.wk[loc].cb
        s1 == DecWeakRef(st, b)
    IN  IF b = 0 THEN {st}
        ELSE IF IsFreed(st, b) THEN {Undefined(st)}
        ELSE IF ~st.wk[loc].is_esft_ptr /\ s1.blk[b].weak_ref_cnt = 0
             THEN {DeleteBlock(s1, b)}
             ELSE {s1}

\* On a freed block the reads are of freed memory: either branch may be taken.
DecreaseWeakCounter(st, loc) ==
    LET b == st.wk[loc].cb
        s1 == DecWeakRef(st, b)
    IN  IF b = 0 THEN {st}
        ELSE IF IsFreed(st, b)
             THEN {Undefined(st)} \cup
                  (IF st.wk[loc].is_esft_ptr THEN {} ELSE {Undefined(DeleteBlock(st, b))})
        ELSE IF ~st.wk[loc].is_esft_ptr /\ CanDeleteControlBlock(s1, b)
             THEN {DeleteBlock(s1, b)}
             ELSE {s1}

WeakReset(st, loc) ==
    {IF Crashed(s) THEN s ELSE SetW(s, loc, NullW) : s \in DecreaseWeakCounter(st, loc)}

----------------------------------------------------------------------------
\* SharedPtr: release.  DecreaseStrongCounter, Destroy and ~T call each other.

RECURSIVE DecreaseStrongCounter(_, _), Destroy(_, _), DestroyObject(_, _)

IncreaseStrongCounter(st, loc) ==
    IF st.sh[loc].cb # 0 THEN IncStrongRef(st, st.sh[loc].cb) ELSE st

\* the tail of DecreaseStrongCounter, after Destroy() has returned:
\*   if (control_block_->CanDeleteControlBlock()) delete control_block_;
\* If the destructor freed the block the test reads freed memory, and if it
\* destroyed this very handle control_block_ itself is read from a dead object.
DeleteIfUnreferenced(st, loc, b) ==
    LET test == IF IsFreed(st, b) THEN {Undefined(st), Undefined(DeleteBlock(st, b))}
                ELSE IF CanDeleteControlBlock(st, b) THEN {DeleteBlock(st, b)}
                ELSE {st}
    IN  IF Crashed(st) THEN {st}
        ELSE IF ~LiveLoc(st, loc) THEN {Crash(st)} \cup test
        ELSE test

\* void DecreaseStrongCounter(), on the handle at loc
DecreaseStrongCounter(st, loc) ==
    LET b == st.sh[loc].cb
        s1 == DecStrongRef(st, b)
    IN  IF Crashed(st) \/ b = 0 THEN {st}
        ELSE IF IsFreed(st, b) THEN {Undefined(st), Undefined(DeleteBlock(st, b))}
        ELSE IF s1.blk[b].strong_ref_cnt # 0 THEN {s1}
        ELSE UNION {DeleteIfUnreferenced(s2, loc, b) : s2 \in Destroy(s1, b)}

\* void Reset(), also ~SharedPtr()
Reset(st, loc) ==
    {IF Crashed(s) THEN s ELSE SetS(s, loc, NullS) : s \in DecreaseStrongCounter(st, loc)}

\* ~T() on the object at e: the members in reverse order of declaration
\* (wm, next), then the base EnableSharedFromThis<T> with its weak_this_.
DestroyObject(st, e) ==
    LET s0 == [st EXCEPT !.obj[e].st = "dying", !.obj[e].dtors = @ + 1]
        a1 == WeakReset(s0, <<"wm", e>>)
        a2 == UNION {Reset(s, <<"next", e>>) : s \in a1}
        a3 == IF st.esft
              THEN UNION {IF Crashed(s) THEN {s} ELSE WeakReset(s, <<"this", e>>) : s \in a2}
              ELSE a2
    IN  {[s EXCEPT !.obj[e].st = "dead"] : s \in a3}

\* a Destroy() that does not test is_destroyed
DestroyUnguarded(st, b) ==
    LET s1 == [st EXCEPT !.blk[b].strong_ref_cnt = 0, !.blk[b].is_destroyed = TRUE]
    IN  IF st.blk[b].inl THEN DestroyObject(s1, b)
        ELSE IF st.blk[b].deletem_ptr # 0 THEN DestroyObject(s1, st.blk[b].deletem_ptr)
        ELSE {s1}

\* DefaultBlock<T>::Destroy (delete deletem_ptr) and InlineBlock<T>::Destroy
\* (the destructor in place)
Destroy(st, b) ==
    LET s1 == [st EXCEPT !.blk[b].strong_ref_cnt = 0, !.blk[b].is_destroyed = TRUE]
    IN  IF st.blk[b].is_destroyed THEN {st}
        ELSE IF st.blk[b].inl THEN DestroyObject(s1, b)
        ELSE IF st.blk[b].deletem_ptr # 0 THEN DestroyObject(s1, st.blk[b].deletem_ptr)
        ELSE {s1}

----------------------------------------------------------------------------
\* SharedPtr: construction and assignment, each on the handle at d

\* InitWeakThis(esft_block): esft_block->weak_this_ = WeakPtr<Y>(*this), a
\* move assignment (Reset, Swap), then MakeEsftPtr().  esft_block is the
\* pointer p the handle was given; a null or dangling p is a wild access.
InitWeakThis(st, d, p) ==
    LET wt == <<"this", p>>
        s1 == IF st.sh[d].cb # 0 THEN IncWeakRef(st, st.sh[d].cb) ELSE st
    IN  IF p = 0 \/ st.obj[p].st # "alive" THEN {Crash(st)}
        ELSE {[s EXCEPT !.wk[wt] = [cb |-> st.sh[d].cb, ptr |-> st.sh[d].ptr,
                                    is_esft_ptr |-> TRUE]] : s \in WeakReset(s1, wt)}

\* explicit SharedPtr(Y* ptr), with the new DefaultBlock<Y> at address b
AdoptPtr(st, d, p, b) ==
    LET s1 == [st EXCEPT !.blk[b] = [ControlBlockBase EXCEPT !.st = "live",
                                                            !.deletem_ptr = p],
                         !.sh[d] = [cb |-> b, ptr |-> p]]
        s2 == IncreaseStrongCounter(s1, d)
    IN  IF st.esft THEN InitWeakThis(s2, d, p) ELSE {s2}

\* SharedPtr(ControlBlockBase* block, T* ptr)
FromBlock(st, d, b, p) ==
    LET s2 == IncreaseStrongCounter([st EXCEPT !.sh[d] = [cb |-> b, ptr |-> p]], d)
    IN  IF st.esft THEN InitWeakThis(s2, d, p) ELSE {s2}

\* MakeShared<T>(): new InlineBlock<T> at address e, the object in its storage
MakeShared(st, d, e) ==
    FromBlock([st EXCEPT !.blk[e] = [ControlBlockBase EXCEPT !.st = "live",
                                                            !.inl = TRUE,
                                                            !.deletem_ptr = e],
                         !.obj[e] = [st |-> "alive", dtors |-> 0]], d, e, e)

\* SharedPtr(const SharedPtr& other)
CopyConstruct(st, d, src) ==
    IncreaseStrongCounter([st EXCEPT !.sh[d] = st.sh[src]], d)

\* SharedPtr(SharedPtr&& other)
MoveConstruct(st, d, src) ==
    [st EXCEPT !.sh[d] = st.sh[src], !.sh[src] = NullS]

\* SharedPtr(const SharedPtr<Y>& other, T* ptr)
AliasConstruct(st, d, src, p) ==
    LET s1 == IncreaseStrongCounter([st EXCEPT !.sh[d] = [cb |-> st.sh[src].cb,
                                                         ptr |-> 0]], d)
    IN  [s1 EXCEPT !.sh[d].ptr = p]

\* a promotion that does not look at IsDestroyed()
PromoteUnchecked(st, d, w) ==
    IF st.wk[w].cb = 0 THEN {Crash(st)}
    ELSE {IncreaseStrongCounter([st EXCEPT !.sh[d] = [cb |-> st.wk[w].cb,
                                                     ptr |-> st.wk[w].ptr]], d)}

\* explicit SharedPtr(const WeakPtr<T>& other): control_block_->IsDestroyed()
\* on a null block is a wild read, on a freed block a read of freed memory.
Promote(st, d, w) ==
    LET b == st.wk[w].cb
        taken == IncreaseStrongCounter([st EXCEPT !.sh[d] = [cb |-> b,
                                               ptr |-> st.wk[w].ptr]], d)
        thrown == [st EXCEPT !.res = "throw"]
    IN  IF b = 0 THEN {Crash(st)}
        ELSE IF IsFreed(st, b) THEN {Undefined(thrown), Undefined(taken)}
        ELSE IF st.blk[b].is_destroyed THEN {thrown}
        ELSE {taken}

\* what `other.control_block_, other.ptr_` read once the call has run the
\* destructors it runs: if they destroyed `other`, the read is of a dead
\* object, whose handle was just reset (null) unless the store was dropped or
\* the memory reused (the value it had, pre.sh[src]).
ReadOther(st, pre, src) ==
    IF LiveLoc(st, src) THEN {st.sh[src]} ELSE {NullS, pre.sh[src]}

\* the state after such a read
AfterRead(st, src) == IF LiveLoc(st, src) THEN st ELSE Undefined(st)

\* a copy assignment without the test this != &other
CopyAssignNoSelfTest(st, d, src) ==
    UNION {IF Crashed(s) THEN {s}
           ELSE {IF v.cb # 0 THEN IncStrongRef(SetS(AfterRead(s, src), d, v), v.cb)
                 ELSE SetS(AfterRead(s, src), d, v) : v \in ReadOther(s, st, src)}
           : s \in DecreaseStrongCounter(st, d)}

\* SharedPtr& operator=(const SharedPtr& other)
CopyAssign(st, d, src) ==
    IF d = src THEN {st}
    ELSE UNION {IF Crashed(s) THEN {s}
                ELSE {IF v.cb # 0 THEN IncStrongRef(SetS(AfterRead(s, src), d, v), v.cb)
                      ELSE SetS(AfterRead(s, src), d, v) : v \in ReadOther(s, st, src)}
                : s \in DecreaseStrongCounter(st, d)}

\* void Swap(SharedPtr& other)
Swap(st, d, src) ==
    [st EXCEPT !.sh[d] = st.sh[src], !.sh[src] = st.sh[d]]

\* SharedPtr& operator=(SharedPtr&& other): Reset(); Swap(other)
MoveAssign(st, d, src) ==
    IF d = src THEN {st}
    ELSE UNION {IF Crashed(s) THEN {s}
                ELSE {SetS(SetS(s, d, v), src, s.sh[d]) : v \in ReadOther(s, st, src)}
                : s \in Reset(st, d)}

\* void Reset(Y* ptr): *this = SharedPtr(ptr), the temporary destroyed after
ResetPtr(st, d, p, b) ==
    UNION {IF Crashed(s) THEN {s}
           ELSE UNION {Reset(s2, TmpS) : s2 \in MoveAssign(s, d, TmpS)}
           : s \in AdoptPtr(st, TmpS, p, b)}

----------------------------------------------------------------------------
\* WeakPtr: construction, assignment, Lock

\* WeakPtr(const SharedPtr<T>& other)
WeakFromShared(st, w, src) ==
    IncreaseWeakCounter(SetW(st, w, st.sh[src]), w)

\* a copy that does not count the new handle
WeakCopyUncounted(st, w, src) == SetW(st, w, st.wk[src])

\* WeakPtr(const WeakPtr& other): is_esft_ptr_ is not copied
WeakCopyConstruct(st, w, src) ==
    IncreaseWeakCounter(SetW(st, w, st.wk[src]), w)

\* a move that counts the new handle and forgets the source without Reset()
WeakMoveConstructNoRelease(st, w, src) ==
    {[IncreaseWeakCounter(SetW(st, w, st.wk[src]), w) EXCEPT !.wk[src] = NullW]}

\* WeakPtr(WeakPtr&& other): IncreaseWeakCounter(); other.Reset()
WeakMoveConstruct(st, w, src) ==
    WeakReset(IncreaseWeakCounter(SetW(st, w, st.wk[src]), w), src)

ReadOtherWeak(st, pre, src) ==
    IF LiveLoc(st, src) THEN {st.wk[src]} ELSE {NullW, pre.wk[src]}

\* WeakPtr& operator=(const WeakPtr& other)
WeakCopyAssign(st, d, src) ==
    IF d = src THEN {st}
    ELSE UNION {{IF v.cb # 0 THEN IncWeakRef(SetW(s, d, v), v.cb) ELSE SetW(s, d, v)
                 : v \in ReadOtherWeak(s, st, src)}
                : s \in WeakReset(st, d)}

\* void Swap(WeakPtr& other): is_esft_ptr_ is not swapped
WeakSwap(st, d, src) ==
    SetW(SetW(st, d, st.wk[src]), src, st.wk[d])

\* WeakPtr& operator=(WeakPtr&& other): Reset(); Swap(other)
WeakMoveAssign(st, d, src) ==
    IF d = src THEN {st}
    ELSE UNION {{SetW(SetW(s, d, v), src, s.wk[d]) : v \in ReadOtherWeak(s, st, src)}
                : s \in WeakReset(st, d)}

\* an Expired() that looks at the pointer only, not at IsDestroyed()
ExpiredIfNull(st, w) == {st.wk[w].cb = 0}

\* bool Expired() const, the values it can return
Expired(st, w) ==
    IF st.wk[w].cb = 0 THEN {TRUE}
    ELSE IF IsFreed(st, st.wk[w].cb) THEN {TRUE, FALSE}
    ELSE {st.blk[st.wk[w].cb].is_destroyed}

\* SharedPtr<T> Lock() const, the result built at d
Lock(st, d, w) ==
    LET s0 == IF IsFreed(st, st.wk[w].cb) THEN Undefined(st) ELSE st
    IN  UNION {IF x THEN {[s0 EXCEPT !.res = "null"]}
               ELSE FromBlock(s0, d, st.wk[w].cb, st.wk[w].ptr) : x \in Expired(st, w)}

----------------------------------------------------------------------------
\* EnableSharedFromThis<T>, on the object at e

\* SharedPtr<T> SharedFromThis(): SharedPtr<T>(weak_this_)
SharedFromThis(st, d, e) == Promote(st, d, <<"this", e>>)

\* WeakPtr<T> WeakFromThis(): WeakPtr<T>(weak_this_)
WeakFromThis(st, w, e) == WeakCopyConstruct(st, w, <<"this", e>>)

\* *a = *b with the implicit T::operator=(const T&): the base
\* EnableSharedFromThis<T> (weak_this_ = other.weak_this_), then next, then wm.
\* Once the assignment of next has destroyed a or b the rest is a wild access.
ObjectCopyAssign(st, a, b) ==
    LET a1 == IF st.esft THEN WeakCopyAssign(st, <<"this", a>>, <<"this", b>>) ELSE {st}
        a2 == UNION {CopyAssign(s, <<"next", a>>, <<"next", b>>) : s \in a1}
    IN  UNION {IF Crashed(s) THEN {s}
               ELSE IF s.obj[a].st # "alive" \/ s.obj[b].st # "alive" THEN {Crash(s)}
               ELSE WeakCopyAssign(s, <<"wm", a>>, <<"wm", b>>) : s \in a2}

----------------------------------------------------------------------------
\* The client program: any sequence of calls on the handles it can name.

\* The client programs explored.  Each is a bound on what one program does:
\* how many objects it makes, whether it builds handles whose pointer is not
\* the managed object (aliasing, a null raw pointer), which members of T it
\* uses, whether it uses WeakPtr at all, and whether T may be self-aware.
Clients ==
    { [objs |-> 1, alias |-> TRUE, members |-> {"next", "wm"}, weak |-> TRUE, aware |-> BOOLEAN],
      [objs |-> MaxObj, alias |-> FALSE, members |-> {"next"}, weak |-> TRUE, aware |-> BOOLEAN],
      [objs |-> MaxObj, alias |-> TRUE, members |-> {}, weak |-> TRUE, aware |-> BOOLEAN],
      [objs |-> MaxObj, alias |-> TRUE, members |-> {"next"}, weak |-> FALSE, aware |-> {FALSE}] }

Init ==
    /\ client \in Clients
    /\ selfAware \in client.aware
    /\ blk = [e \in Ent |-> ControlBlockBase]
    /\ obj = [e \in Ent |-> NoObject]
    /\ sh = [l \in SLoc |-> NullS]
    /\ wk = [l \in WLoc |-> NullW]
    /\ last = [op |-> "init", res |-> "ok", ub |-> FALSE]

\* The program runs until a call's behaviour is undefined; the state that call
\* leaves is one of those the build can produce, and nothing is said of later.
Running == ~last.ub

\* the next unused address
FreshEnt ==
    {e \in 1..client.objs : /\ obj[e].st = "none" /\ blk[e].st = "none"
                 /\ \A f \in 1..(e - 1) : obj[f].st # "none" \/ blk[f].st # "none"}

\* `new T` at the address e
NewT(st, e) == [st EXCEPT !.obj[e] = [st |-> "alive", dtors |-> 0]]

\* objects the client can name, as h-> on one of its handles
Reachable == {e \in Ent : obj[e].st = "alive" /\ \E l \in ExtS : sh[l].ptr = e}

AccS == ExtS \cup {<<m, e>> : m \in client.members \cap {"next"}, e \in Reachable}
AccW == ExtW \cup {<<m, e>> : m \in client.members \cap {"wm"}, e \in Reachable}
FreshS == {d \in ExtS : sh[d] = NullS}
FreshW == {w \in ExtW : wk[w] = NullW}

\* the call ends in one of the states S; a crashed process keeps no state,
\* the record then shows the state before the call
Commit(S, op) ==
    \E s \in S :
        /\ last' = [op |-> op, res |-> s.res, ub |-> s.ub]
        /\ IF Crashed(s) THEN UNCHANGED <<blk, obj, sh, wk>>
           ELSE blk' = s.blk /\ obj' = s.obj /\ sh' = s.sh /\ wk' = s.wk
        /\ UNCHANGED <<client, selfAware>>

DoAdopt ==
    /\ Running
    /\ \E d \in FreshS, p \in FreshEnt : Commit(AdoptPtr(NewT(Cur, p), d, p, p), "Adopt")

DoAdoptNull ==
    /\ Running
    /\ client.alias
    /\ \E d \in FreshS, b \in FreshEnt : Commit(AdoptPtr(Cur, d, 0, b), "AdoptNull")

DoMakeShared ==
    /\ Running
    /\ \E d \in FreshS, e \in FreshEnt : Commit(MakeShared(Cur, d, e), "MakeShared")

DoCopyConstruct ==
    /\ Running
    /\ \E d \in FreshS : \E src \in AccS \ {d} : Commit({CopyConstruct(Cur, d, src)}, "Copy")

\* SharedPtr<T> d(std::move(src));
MoveCall(d, src) == Commit({MoveConstruct(Cur, d, src)}, "Move")

DoMoveConstruct ==
    /\ Running
    /\ \E d \in FreshS : \E src \in AccS \ {d} : MoveCall(d, src)

\* the pointers a caller can pass beside a handle
AliasPtrs == {0} \cup {e \in Ent : obj[e].st = "alive"}

\* SharedPtr<T> d(src, p);
AliasCall(d, src, p) == Commit({AliasConstruct(Cur, d, src, p)}, "Alias")

DoAliasConstruct ==
    /\ Running
    /\ client.alias
    /\ \E d \in FreshS : \E src \in AccS \ {d}, p \in AliasPtrs : AliasCall(d, src, p)

\* SharedPtr<T> d(w);
PromoteCall(d, w) == Commit(Promote(Cur, d, w), "Promote")

DoPromote ==
    /\ Running
    /\ client.weak
    /\ \E d \in FreshS, w \in AccW : PromoteCall(d, w)

\* d = src;
CopyAssignCall(d, src) ==
    Commit(CopyAssign(Cur, d, src), IF d = src THEN "CopySelfAssign" ELSE "CopyAssign")

DoCopyAssign ==
    /\ Running
    /\ \E d \in AccS, src \in AccS : CopyAssignCall(d, src)

\* d = std::move(src);
MoveAssignCall(d, src) == Commit(MoveAssign(Cur, d, src), "MoveAssign")

DoMoveAssign ==
    /\ Running
    /\ \E d \in AccS, src \in AccS : MoveAssignCall(d, src)

\* d.Reset();
ResetCall(d) == Commit(Reset(Cur, d), "Reset")

DoReset ==
    /\ Running
    /\ \E d \in AccS : ResetCall(d)

DoResetPtr ==
    /\ Running
    /\ \E d \in AccS, p \in FreshEnt : Commit(ResetPtr(NewT(Cur, p), d, p, p), "ResetPtr")

DoSwap ==
    /\ Running
    /\ \E d \in AccS, src \in AccS : Commit({Swap(Cur, d, src)}, "Swap")

DoWeakFromShared ==
    /\ Running
    /\ client.weak
    /\ \E w \in FreshW, src \in AccS : Commit({WeakFromShared(Cur, w, src)}, "WeakFromShared")

DoWeakCopyConstruct ==
    /\ Running
    /\ client.weak
    /\ \E w \in FreshW : \E src \in AccW \ {w} : Commit({WeakCopyConstruct(Cur, w, src)}, "WeakCopy")

\* WeakPtr<T> w(std::move(src));
WeakMoveCall(w, src) == Commit(WeakMoveConstruct(Cur, w, src), "WeakMove")

DoWeakMoveConstruct ==
    /\ Running
    /\ client.weak
    /\ \E w \in FreshW : \E src \in AccW \ {w} : WeakMoveCall(w, src)

DoWeakCopyAssign ==
    /\ Running
    /\ client.weak
    /\ \E d \in AccW, src \in AccW : Commit(WeakCopyAssign(Cur, d, src), "WeakCopyAssign")

DoWeakMoveAssign ==
    /\ Running
    /\ client.weak
    /\ \E d \in AccW, src \in AccW : Commit(WeakMoveAssign(Cur, d, src), "WeakMoveAssign")

DoWeakReset ==
    /\ Running
    /\ client.weak
    /\ \E d \in AccW : Commit(WeakReset(Cur, d), "WeakReset")

DoWeakSwap ==
    /\ Running
    /\ client.weak
    /\ \E d \in AccW, src \in AccW : Commit({WeakSwap(Cur, d, src)}, "WeakSwap")

\* SharedPtr<T> d = w.Lock();
LockCall(d, w) == Commit(Lock(Cur, d, w), "Lock")

DoLock ==
    /\ Running
    /\ client.weak
    /\ \E d \in FreshS, w \in AccW : LockCall(d, w)

\* SharedPtr<T> d = e->SharedFromThis();
SharedFromThisCall(d, e) == Commit(SharedFromThis(Cur, d, e), "SharedFromThis")

DoSharedFromThis ==
    /\ Running
    /\ selfAware
    /\ \E d \in FreshS, e \in Reachable : SharedFromThisCall(d, e)

\* T x; x.SharedFromThis(): an object no SharedPtr has wrapped
DoSharedFromThisUnwrapped ==
    /\ Running
    /\ selfAware
    /\ \E d \in FreshS, e \in FreshEnt :
        Commit(SharedFromThis(NewT(Cur, e), d, e), "SharedFromThisUnwrapped")

DoWeakFromThis ==
    /\ Running
    /\ selfAware
    /\ \E w \in FreshW, e \in Reachable : Commit({WeakFromThis(Cur, w, e)}, "WeakFromThis")

DoObjectCopyAssign ==
    /\ Running
    /\ \E a \in Reachable : \E b \in Reachable \ {a} :
        Commit(ObjectCopyAssign(Cur, a, b), "ObjectCopyAssign")

Next ==
    \/ DoAdopt
    \/ DoAdoptNull
    \/ DoMakeShared
    \/ DoCopyConstruct
    \/ DoMoveConstruct
    \/ DoAliasConstruct
    \/ DoPromote
    \/ DoCopyAssign
    \/ DoMoveAssign
    \/ DoReset
    \/ DoResetPtr
    \/ DoSwap
    \/ DoWeakFromShared
    \/ DoWeakCopyConstruct
    \/ DoWeakMoveConstruct
    \/ DoWeakCopyAssign
    \/ DoWeakMoveAssign
    \/ DoWeakReset
    \/ DoWeakSwap
    \/ DoLock
    \/ DoSharedFromThis
    \/ DoSharedFromThisUnwrapped
    \/ DoWeakFromThis
    \/ DoObjectCopyAssign

Spec == Init /\ [][Next]_vars

----------------------------------------------------------------------------
\* What the claims speak of

\* the handles that exist: the client's, and the members of living objects
LiveShared == {l \in SLoc : LiveLoc(Cur, l)}
LiveWeak == {l \in WLoc : LiveLoc(Cur, l)}

\* the living handles whose control_block_ is block b
StrongHandles(b) == {l \in LiveShared : sh[l].cb = b}
WeakHandles(b) == {l \in LiveWeak : wk[l].cb = b}

\* size_t UseCount() const of the handle at l
UseCount(l) == IF sh[l].cb = 0 THEN 0 ELSE blk[sh[l].cb].strong_ref_cnt

Allocated == {b \in Ent : blk[b].st = "live"}
Created == {b \in Ent : blk[b].st # "none"}

\* the block manages an object: every InlineBlock, a DefaultBlock whose
\* deletem_ptr is not null
HasObject(b) == blk[b].inl \/ blk[b].deletem_ptr # 0

\* C1: the strong counter of every allocated control block, which is what
\* UseCount() returns on each handle of the block, is the number of living
\* SharedPtr handles whose control_block_ is that block; a handle without a
\* block reports 0.
C1_UseCountIsHandleCount ==
    /\ \A b \in Allocated : blk[b].strong_ref_cnt = Cardinality(StrongHandles(b))
    /\ \A l \in LiveShared :
        /\ sh[l].cb \in Allocated => UseCount(l) = Cardinality(StrongHandles(sh[l].cb))
        /\ sh[l].cb = 0 => UseCount(l) = 0

\* C2: the destructor of a block's object runs exactly once, in the step that
\* releases the last SharedPtr of the block, weak handles or not: in every
\* state a block some living SharedPtr references has its object not yet
\* destroyed, a block no living SharedPtr references has had it destroyed
\* once, and no object is destroyed twice.  For DefaultBlock and InlineBlock.
C2_DestructorOnceAtLastRelease ==
    \A b \in Created :
        /\ obj[b].dtors <= 1
        /\ StrongHandles(b) = {} =>
             blk[b].is_destroyed /\ (HasObject(b) => obj[b].dtors = 1)
        /\ StrongHandles(b) # {} =>
             ~blk[b].is_destroyed /\ (HasObject(b) => obj[b].dtors = 0)

\* C3: a block is never deleted twice, and a block that no living SharedPtr
\* and no living WeakPtr references has been deleted, once.
C3_BlockFreedExactlyOnce ==
    \A b \in Created :
        /\ blk[b].frees <= 1
        /\ StrongHandles(b) = {} /\ WeakHandles(b) = {} =>
             blk[b].st = "freed" /\ blk[b].frees = 1

\* C4: a block is deleted only with strong_ref_cnt + weak_ref_cnt = 0 (the
\* counters of a deleted block are those it was deleted with), and no living
\* SharedPtr or WeakPtr, weak_this_ included, has a deleted block as its
\* control_block_.
C4_FreedOnlyUnreferenced ==
    /\ \A b \in Ent : blk[b].st = "freed" => GetAllCounter(Cur, b) = 0
    /\ \A l \in LiveShared : sh[l].cb # 0 => blk[sh[l].cb].st # "freed"
    /\ \A l \in LiveWeak : wk[l].cb # 0 => blk[wk[l].cb].st # "freed"

\* C5: Lock() on a WeakPtr whose block is allocated and not destroyed returns
\* a SharedPtr of that block, and the block's strong counter is one more than
\* before the call.
C5_LockLiveAddsOne ==
    [][\A d \in ExtS, w \in WLoc :
        (/\ Running /\ d \in FreshS /\ w \in AccW
         /\ wk[w].cb \in Allocated /\ ~blk[wk[w].cb].is_destroyed
         /\ LockCall(d, w))
        => /\ last'.res = "ok"
           /\ sh'[d].cb = wk[w].cb
           /\ blk'[wk[w].cb].strong_ref_cnt = blk[wk[w].cb].strong_ref_cnt + 1]_vars

\* the WeakPtr at w is expired: no block, or a block whose object is destroyed
ExpiredWeak(w) == wk[w].cb = 0 \/ (wk[w].cb \in Allocated /\ blk[wk[w].cb].is_destroyed)

\* C6: Lock() on an expired WeakPtr returns a null SharedPtr and changes no
\* block: every strong counter, weak counter and destroyed flag is as before.
C6_LockExpiredIsNull ==
    [][\A d \in ExtS, w \in WLoc :
        (Running /\ d \in FreshS /\ w \in AccW /\ ExpiredWeak(w) /\ LockCall(d, w))
        => /\ last'.res = "null"
           /\ sh'[d] = NullS
           /\ blk' = blk]_vars

\* a Lock() has just returned null on a WeakPtr whose block is still
\* allocated with its object destroyed
C6_LockedDestroyed ==
    /\ last.op = "Lock" /\ last.res = "null"
    /\ \A w \in AccW : wk[w].cb \in Allocated /\ blk[wk[w].cb].is_destroyed
    /\ \A l \in ExtS : sh[l] = NullS

\* C7: a WeakPtr without a block is expired; a WeakPtr of a block is expired
\* in every state where no living SharedPtr references the block, the block
\* being still allocated or not, and is not expired in any state where a
\* living SharedPtr references it.
C7_ExpiredIffNoSharedPtr ==
    \A w \in LiveWeak :
        /\ wk[w].cb = 0 => Expired(Cur, w) = {TRUE}
        /\ wk[w].cb # 0 =>
             /\ StrongHandles(wk[w].cb) = {} => Expired(Cur, w) = {TRUE}
             /\ StrongHandles(wk[w].cb) # {} => Expired(Cur, w) = {FALSE}

\* C8: SharedPtr(const WeakPtr&) on a WeakPtr of a block whose object is
\* destroyed throws BadWeakPtr and changes nothing, no counter, no handle, no
\* allocation; on a block whose object is not destroyed it gives a handle of
\* that block and adds one to the strong counter.
C8_PromoteThrowsOrAddsOne ==
    [][\A d \in ExtS, w \in WLoc :
        (Running /\ d \in FreshS /\ w \in AccW /\ wk[w].cb \in Allocated /\ PromoteCall(d, w))
        => IF blk[wk[w].cb].is_destroyed
           THEN /\ last'.res = "throw"
                /\ blk' = blk /\ sh' = sh /\ wk' = wk /\ obj' = obj
           ELSE /\ last'.res = "ok"
                /\ sh'[d].cb = wk[w].cb
                /\ blk'[wk[w].cb].strong_ref_cnt = blk[wk[w].cb].strong_ref_cnt + 1]_vars

\* a promotion has just thrown on a WeakPtr whose block is still allocated
\* with its object destroyed
C8_PromotionThrown ==
    /\ last.op = "Promote" /\ last.res = "throw"
    /\ \A w \in AccW : wk[w].cb \in Allocated /\ blk[wk[w].cb].is_destroyed

\* C9: SharedFromThis() on an object no SharedPtr has wrapped throws
\* BadWeakPtr.
C9_UnwrappedThrows ==
    last.op = "SharedFromThisUnwrapped" => last.res = "throw"

\* C10: on a self-aware object wrapped by a SharedPtr h, SharedFromThis()
\* returns a handle of h's block, the block's strong counter, which both
\* handles then report, is one more than before, and the object is alive.
C10_SharedFromThisSharesBlock ==
    [][\A d \in ExtS, e \in Ent :
        (/\ Running /\ selfAware /\ d \in FreshS /\ e \in Reachable
         /\ \E h \in ExtS : sh[h] = [cb |-> e, ptr |-> e]
         /\ SharedFromThisCall(d, e))
        => /\ last'.res = "ok"
           /\ sh'[d].cb = e
           /\ \A h \in ExtS : sh[h].cb = e => sh'[h].cb = e
           /\ blk'[e].strong_ref_cnt = blk[e].strong_ref_cnt + 1
           /\ obj'[e].st = "alive"]_vars

\* the living handles whose pointer is not the object their block manages
Aliased == {l \in LiveShared : sh[l].cb # 0 /\ sh[l].ptr # blk[sh[l].cb].deletem_ptr}

\* every aliased handle has a block whose object is not destroyed
AliasedKeepAlive ==
    \A l \in Aliased :
        /\ ~blk[sh[l].cb].is_destroyed
        /\ HasObject(sh[l].cb) => obj[sh[l].cb].st = "alive"

\* C11: SharedPtr(other, p) has Get() == p and other's block, whose strong
\* counter it raises by one; after every step each living aliased handle has
\* a block whose object is not destroyed, whatever became of the other
\* handles, and a block whose last handles were aliased ones is destroyed by
\* the step that releases them.
C11_AliasSharesAndKeepsAlive ==
    [][/\ \A d \in ExtS, src \in SLoc, p \in AliasPtrs :
            (/\ Running /\ client.alias /\ d \in FreshS /\ src \in AccS \ {d}
             /\ sh[src].cb \in Allocated
             /\ AliasCall(d, src, p))
            => /\ last'.res = "ok"
               /\ sh'[d] = [cb |-> sh[src].cb, ptr |-> p]
               /\ blk'[sh[src].cb].strong_ref_cnt = blk[sh[src].cb].strong_ref_cnt + 1
       /\ AliasedKeepAlive'
       /\ \A b \in Allocated :
            (StrongHandles(b) # {} /\ StrongHandles(b) \subseteq Aliased /\ StrongHandles(b)' = {})
            => blk'[b].is_destroyed /\ (HasObject(b) => obj'[b].dtors = 1)]_vars

\* C12: h = h changes nothing: no handle, no counter, no flag, no object,
\* also when h is the only owner.
C12_SelfAssignNoOp ==
    [][\A d \in SLoc : (Running /\ d \in AccS /\ CopyAssignCall(d, d))
                       => UNCHANGED <<blk, obj, sh, wk>> /\ last'.res = "ok"]_vars

\* a handle has just been assigned to itself where every handle the caller
\* has is the only owner of a living object
C12_SoleOwnerSelfAssigned ==
    /\ last.op = "CopySelfAssign"
    /\ \A l \in AccS : /\ sh[l].cb \in Allocated /\ UseCount(l) = 1
                       /\ ~blk[sh[l].cb].is_destroyed
                       /\ HasObject(sh[l].cb) /\ obj[sh[l].cb].st = "alive"

\* C13: in every state every living SharedPtr has a null pointer exactly when
\* it has no control block.
C13_NullPointerIffNoBlock ==
    \A l \in LiveShared : (sh[l].ptr = 0) <=> (sh[l].cb = 0)

\* C14: an allocated block whose object is destroyed has strong_ref_cnt 0, and
\* no step takes the destroyed flag back or makes that counter other than 0.
C14_NoResurrection ==
    [][/\ \A b \in Ent : blk'[b].st = "live" /\ blk'[b].is_destroyed => blk'[b].strong_ref_cnt = 0
       /\ \A b \in Allocated : blk[b].is_destroyed /\ blk'[b].st = "live" => blk'[b].is_destroyed]_vars

\* C15: a move construction leaves the source null, gives the new handle the
\* source's block and pointer, and changes no block: strong and weak counters
\* are what they were.  For SharedPtr and for WeakPtr.
C15_MoveTransfers ==
    [][/\ \A d \in ExtS, src \in SLoc :
            (Running /\ d \in FreshS /\ src \in AccS \ {d} /\ MoveCall(d, src))
            => /\ last'.res = "ok"
               /\ sh'[d] = sh[src] /\ sh'[src] = NullS
               /\ blk' = blk
       /\ \A w \in ExtW, src \in WLoc :
            (Running /\ client.weak /\ w \in FreshW /\ src \in AccW \ {w} /\ WeakMoveCall(w, src))
            => /\ last'.res = "ok"
               /\ wk'[w].cb = wk[src].cb /\ wk'[w].ptr = wk[src].ptr
               /\ wk'[src].cb = 0 /\ wk'[src].ptr = 0
               /\ blk' = blk]_vars

\* a WeakPtr of an allocated block has just been move-constructed from the
\* only other WeakPtr of that block
C15_WeakMoved ==
    /\ last.op = "WeakMove"
    /\ \E w \in ExtW : /\ wk[w].cb \in Allocated
                       /\ WeakHandles(wk[w].cb) = {w}
                       /\ blk[wk[w].cb].weak_ref_cnt = 1


\* the calls that make, assign, reset or swap WeakPtr handles and nothing else
WeakOps ==
    {"WeakFromShared", "WeakCopy", "WeakMove", "WeakCopyAssign", "WeakMoveAssign",
     "WeakReset", "WeakSwap", "WeakFromThis"}

\* C16: after every call, the weak counter of every allocated block is the
\* number of living WeakPtr handles whose control_block_ is that block, the
\* weak_this_ of a self-aware object counting as one; and a call that only
\* makes, copies, moves, assigns, resets or swaps WeakPtr handles, WeakFromThis()
\* included, leaves the strong counter of every block as it was.
C16_WeakCountIsHandleCount ==
    [][/\ \A b \in Allocated' : blk'[b].weak_ref_cnt = Cardinality(WeakHandles(b)')
       /\ last'.op \in WeakOps
            => \A b \in Ent : blk'[b].strong_ref_cnt = blk[b].strong_ref_cnt]_vars

\* WeakFromThis() has just given the client a second weak handle of a block
\* whose object holds the first, and one SharedPtr owns the object
C16_SelfAndOutsideWeak ==
    /\ last.op = "WeakFromThis"
    /\ \E b \in Allocated : /\ <<"this", b>> \in WeakHandles(b)
                            /\ Cardinality(WeakHandles(b)) = 2
                            /\ blk[b].weak_ref_cnt = 2
                            /\ blk[b].strong_ref_cnt = 1


OutsideWeak(b) == WeakHandles(b) \ {<<"this", b>>}

\* C18: the back-reference of a self-aware object never keeps the object
\* alive and never frees the block.  A wrap leaves a block with strong counter
\* 1, the back-reference counted in the weak counter only; once no living
\* SharedPtr references the block its object has been destroyed, once; while a
\* WeakPtr other than the back-reference still references it the block stays
\* allocated, and when none does it has been deallocated, exactly once.
C18_BackReferenceNeitherOwnsNorFrees ==
    [][selfAware =>
        /\ \A b \in Ent :
            (blk[b].st = "none" /\ blk'[b].st = "live") =>
                /\ blk'[b].strong_ref_cnt = 1 /\ blk'[b].weak_ref_cnt = 1
                /\ wk'[<<"this", b>>] = [cb |-> b, ptr |-> b, is_esft_ptr |-> TRUE]
        /\ \A b \in Created' :
            /\ blk'[b].frees <= 1
            /\ StrongHandles(b)' = {} => blk'[b].is_destroyed /\ obj'[b].dtors = 1
            /\ (StrongHandles(b)' = {} /\ OutsideWeak(b)' # {}) => blk'[b].st = "live"
            /\ (StrongHandles(b)' = {} /\ OutsideWeak(b)' = {})
                 => blk'[b].st = "freed" /\ blk'[b].frees = 1]_vars


\* the calls in which only WeakPtr handles are released: a block deallocated
\* by one of them is deallocated by the weak side
WeakReleaseOps == {"WeakMove", "WeakCopyAssign", "WeakMoveAssign", "WeakReset"}

\* block b was deallocated with combined count zero after its object had been
\* destroyed
FreedDestroyed(b) ==
    /\ GetAllCounter(Cur, b) = 0
    /\ blk[b].is_destroyed
    /\ obj[b].st # "alive"
    /\ HasObject(b) => obj[b].dtors >= 1

\* C19: a block deallocated by the Reset() or destruction of a WeakPtr has
\* combined count zero and is_destroyed true, its object's destructor has run:
\* so in every call that releases WeakPtr handles only, and so for every block
\* deallocated in any call, which covers the WeakPtr members released inside
\* a destructor.  A weak-side release never frees the block of a living object.
C19_WeakSideFreesOnlyDestroyed ==
    [][/\ \A b \in Ent :
            (last'.op \in WeakReleaseOps /\ blk'[b].frees > blk[b].frees)
            => blk[b].is_destroyed /\ blk[b].strong_ref_cnt = 0 /\ FreedDestroyed(b)'
       /\ \A b \in Ent : blk'[b].frees > blk[b].frees => FreedDestroyed(b)']_vars

\* the state Reset() of the last WeakPtr of a destroyed block leaves: the block
\* deallocated once, its object destroyed once, no WeakPtr of it left
C19_FreedByWeakReset ==
    /\ last.op = "WeakReset"
    /\ \E b \in Ent : /\ blk[b].st = "freed" /\ blk[b].frees = 1
                      /\ HasObject(b) /\ obj[b].dtors = 1
                      /\ WeakHandles(b) = {}


\* C20: a block is deallocated after Destroy() has returned and is not read or
\* written afterwards.  Reset() of a SharedPtr the client holds, whatever the
\* destructors it runs release, touches no freed memory and deallocates no
\* block twice; so too when it releases the last owner of an object whose
\* ordinary WeakPtr member is the last weak handle of the object's own block.
C20_FreedAfterDestroyUntouched ==
    [][\A d \in ExtS :
        (Running /\ ResetCall(d))
        => /\ last'.res = "ok" /\ ~last'.ub
           /\ \A b \in Ent : blk'[b].frees <= 1]_vars

\* C21: every living WeakPtr flagged is_esft_ptr_ is null or is the weak_this_
\* of the object that its control block manages, so that it is released
\* inside that block's Destroy().
C21_FlaggedIsOwnBackReference ==
    \A w \in LiveWeak :
        wk[w].is_esft_ptr =>
            \/ wk[w].cb = 0
            \/ /\ w[1] = "this"
               /\ wk[w].cb \in Created
               /\ HasObject(wk[w].cb)
               /\ w[2] = (IF blk[wk[w].cb].inl THEN wk[w].cb ELSE blk[wk[w].cb].deletem_ptr)


\* C22: a = src and a = std::move(src) do not read src after it is destroyed.
\* When a is the only owner of the object X and src is the member next of X,
\* referencing another allocated block Y, the call touches no destroyed
\* handle, and after it a references Y, the strong counter of Y is the number
\* of its living handles, the object of Y is alive and X was destroyed once.
C22_AssignFromOwnedMember ==
    [][\A d \in ExtS, x \in Ent :
        LET src == <<"next", x>>
            y == sh[src].cb
        IN  (/\ Running /\ d \in AccS /\ src \in AccS
             /\ sh[d] = [cb |-> x, ptr |-> x] /\ x \in Allocated
             /\ StrongHandles(x) = {d} /\ blk[x].strong_ref_cnt = 1
             /\ y \in Allocated \ {x} /\ ~blk[y].is_destroyed
             /\ HasObject(y) /\ obj[y].st = "alive"
             /\ (CopyAssignCall(d, src) \/ MoveAssignCall(d, src)))
            => /\ last'.res = "ok" /\ ~last'.ub
               /\ sh'[d].cb = y
               /\ blk'[y].st = "live"
               /\ blk'[y].strong_ref_cnt = Cardinality(StrongHandles(y)')
               /\ obj'[y].st = "alive"
               /\ obj'[x].dtors = 1]_vars


\* C23: Lock() on a WeakPtr whose block is allocated and not destroyed returns
\* a SharedPtr and changes nothing but that block's strong counter: its weak
\* counter and is_destroyed are as before, no block is deallocated or otherwise
\* changed, no object is destroyed, and every WeakPtr, the weak_this_ of a
\* self-aware object included, has the block, pointer and flag it had.
C23_LockChangesStrongOnly ==
    [][\A d \in ExtS, w \in WLoc :
        (/\ Running /\ d \in FreshS /\ w \in AccW
         /\ wk[w].cb \in Allocated /\ ~blk[wk[w].cb].is_destroyed
         /\ LockCall(d, w))
        => /\ last'.res = "ok" /\ ~last'.ub
           /\ blk' = [blk EXCEPT ![wk[w].cb].strong_ref_cnt = @ + 1]
           /\ obj' = obj
           /\ wk' = wk]_vars

====
